---- MODULE Spec2Model ----
(***************************************************************************)
(* Dispatch-and-tracking engine of the courier suite: the Order document,  *)
(* the User profiles it refers to, and the request handlers of             *)
(* backend/routes/orders.js and backend/routes/tracking.js.                *)
(*                                                                         *)
(* Every handler is an async function.  Between two awaits its code runs   *)
(* without interruption (one JavaScript thread); at an await other         *)
(* requests run.  A handler is therefore cut at its awaits:                *)
(*   Receive    authenticateToken, then `await Order.findById/findOne`     *)
(*   Assign, Status, Cancel, Rate, Location, Update, Proof                 *)
(*              the checks and the changes to the loaded document          *)
(*   RateUserFind, RateUserSave, LocationUserSave                          *)
(*              `await User.findById`, `await x.save()`                    *)
(*   OrderSave  `await order.save()` and the response                      *)
(* Nothing a handler does before its first continuation depends on the     *)
(* route or the body, so these are drawn when the continuation runs.       *)
(* order.save() sends the paths the handler modified ($set) and the        *)
(* elements it pushed ($push); it does not compare versions.               *)
(***************************************************************************)
EXTENDS Integers, Sequences, FiniteSets, TLC

\* ------------------------------------------------------------------ bounds
\* a handler goes on to save a tracking event only while fewer than MaxAppend
\* events were stored after the initial state
MaxAppend == 1
\* ticks of the wall clock (Date.now())
MaxClock == 1

\* ------------------------------------------------------------- vocabulary
Statuses == {"pending", "assigned", "picked_up", "in_transit",
             "delivered", "cancelled", "failed"}

\* a validator of the status body that admits every status of the schema
StatusBodyAnyStatus == Statuses

\* body('status').isIn([...]) of PATCH /:id/status
StatusBody == {"picked_up", "in_transit", "delivered", "cancelled", "failed"}

Users == {"cust", "c1", "c2", "adm"}
NoUser == "null"

role == [u \in Users |->
           IF u \in {"c1", "c2"} THEN "courier"
           ELSE IF u = "adm" THEN "admin" ELSE "customer"]

Couriers == {u \in Users : role[u] = "courier"}

requireCourier(u) == role[u] = "courier"

\* the coordinates a client reports; 0 stands for "no location"
Coords == {1}

\* the optional location of the body of PATCH /:id/status
StatusLocations == {0}

\* bodies of PATCH /:id/rate: rating 1..5 and an optional feedback
RateBodies == {[rating |-> 5, feedback |-> "good"]}

Slots == {"r1", "r2"}

VARIABLES
  order,    \* the stored Order document
  users,    \* the stored User documents: isAvailable, currentLocation, rating
  reqs,     \* the requests in flight, one per slot
  clock,    \* Date.now() when it was last read
  out,      \* the response sent by the last step, if it sent one
  base,     \* length of the tracking sequence in the initial state
  session   \* the session context of the client and its localStorage

vars == <<order, users, reqs, clock, out, base, session>>

\* the variables of the server
server == <<order, users, reqs, clock, out, base>>

\* A user as the client holds it.  NoProfile is null in memory and an absent
\* item in localStorage; JSON.stringify and JSON.parse of a profile are
\* inverse to each other, so the stored item is written as the profile.
Profiles ==
  [id : {1}, isAvailable : BOOLEAN, currentLocation : {0, 1}]
NoProfile == [id |-> 0, isAvailable |-> FALSE, currentLocation |-> 0]

\* useState(null), useState(true), an empty localStorage, the effect not yet
\* run and no call in flight.  loggedOut is not a field of the program: it
\* records that logout ran and no login or register has succeeded since.
NoSession ==
  [user |-> NoProfile, isLoading |-> TRUE, token |-> 0,
   savedUser |-> NoProfile, pc |-> "mounted", verdict |-> "none",
   calls |-> {}, leaving |-> FALSE, loggedOut |-> FALSE]

\* new Date(): time may have passed since the clock was last read
Now == {clock} \cup (IF clock <= MaxClock THEN {clock + 1} ELSE {})

\* ---------------------------------------------------------- the documents
\* the table without in_transit -> failed
validTransitionsNoFailed ==
  [s \in {"assigned", "picked_up", "in_transit", "pending"} |->
     CASE s = "assigned"   -> {"picked_up", "cancelled"}
       [] s = "picked_up"  -> {"in_transit", "cancelled"}
       [] s = "in_transit" -> {"delivered"}
       [] s = "pending"    -> {"cancelled"}]

\* const validTransitions = {...} of PATCH /:id/status
validTransitions ==
  [s \in {"assigned", "picked_up", "in_transit", "pending"} |->
     CASE s = "assigned"   -> {"picked_up", "cancelled"}
       [] s = "picked_up"  -> {"in_transit", "cancelled"}
       [] s = "in_transit" -> {"delivered", "failed"}
       [] s = "pending"    -> {"cancelled"}]

\* validTransitions[order.status] && !validTransitions[order.status].includes(status)
transitionRejected(s, t) ==
  s \in DOMAIN validTransitions /\ t \notin validTransitions[s]

\* an element of order.tracking
Event(s, ts, loc, notes) ==
  [status |-> s, timestamp |-> ts, location |-> loc, notes |-> notes]

\* `Order assigned to courier ${req.user.name}`
AssignedTo == [u \in Couriers |->
                 IF u = "c1" THEN "assigned to c1" ELSE "assigned to c2"]

\* ----------------------------------------------------------------- numbers
\* A Number is a binary floating-point value.  The model carries
\* MantissaBits significant bits where a double carries 53, and writes a
\* value as a count of ticks of 1 / Unit; sums and products are rounded to
\* the nearest representable value, ties to even, as IEEE 754 does.
MantissaBits == 16

Unit == 2 ^ 18

\* the spacing, in ticks, of the representable values around n ticks
Quantum(n) ==
  LET Q == {2 ^ k : k \in 0..12}
      fits == {q \in Q : q * 2 ^ (MantissaBits - 1) <= n}
  IN IF fits = {} THEN 1 ELSE CHOOSE q \in fits : \A o \in fits : o <= q

\* the representable value nearest to h half-ticks, in ticks
RoundNearestEven(h) ==
  LET q   == Quantum(h \div 2)
      lo  == (h \div (2 * q)) * q
      rem == h % (2 * q)
  IN IF rem < q THEN lo
     ELSE IF rem > q THEN lo + q
     ELSE IF (lo \div q) % 2 = 0 THEN lo ELSE lo + q

\* a + b
Plus(a, b) == RoundNearestEven(2 * (a + b))

\* a * 1.5
TimesPerKmRate(a) == RoundNearestEven(3 * a)

\* a / b for an integer b: the quotient rounded to the nearest representable
\* value, ties to even
Over(a, b) ==
  LET q    == Quantum(a \div b)
      lo   == ((a \div b) \div q) * q
      rem2 == 2 * (a - lo * b)
  IN IF rem2 < q * b THEN lo
     ELSE IF rem2 > q * b THEN lo + q
     ELSE IF (lo \div q) % 2 = 0 THEN lo ELSE lo + q

\* a * 60
Times60(a) == RoundNearestEven(2 * 60 * a)

\* Math.ceil of a value in ticks
Ceil(a) == (a + Unit - 1) \div Unit

\* toFixed(2) that cuts the digits after the second
toFixed2Cut(num, den) == (100 * num) \div den

\* parseFloat((num / den).toFixed(2)), in hundredths
toFixed2(num, den) == (2 * 100 * num + den) \div (2 * den)

Priorities == {"standard", "express", "urgent"}

\* calculatePricing(distance, priority): distance in ticks, the four stored
\* amounts in cents
calculatePricing(distance, priority) ==
  LET baseFare     == 5 * Unit
      distanceFare == TimesPerKmRate(distance)
      priorityFare == CASE priority = "express" -> baseFare \div 2
                        [] priority = "urgent"  -> baseFare
                        [] OTHER                -> 0
      totalAmount  == Plus(Plus(baseFare, distanceFare), priorityFare)
  IN [baseFare     |-> toFixed2(baseFare, Unit),
      distanceFare |-> toFixed2(distanceFare, Unit),
      priorityFare |-> toFixed2(priorityFare, Unit),
      totalAmount  |-> toFixed2(totalAmount, Unit)]

\* order.calculateDistance() of the orders the runs start from: 2 km
DefaultDistance == 2 * Unit

\* order numbers; 0 is no number
Numbers == {1, 2}

\* the numbers of the other orders of the collection
StoredNumbers == {1}

\* the number of the orders the runs start from
FreeNumber == CHOOSE n \in Numbers : n \notin StoredNumbers

\* an Order document; 0 is an unset time, rating or location
Doc(cu, co, st, pk, dl) ==
  [exists |-> TRUE, orderNumber |-> FreeNumber, customer |-> cu, courier |-> co, status |-> st,
   pickup |-> pk, delivery |-> dl,
   customerRating |-> 0, customerFeedback |-> "",
   courierRating |-> 0, courierFeedback |-> "", images |-> 0,
   pricing |-> calculatePricing(DefaultDistance, "standard")]

NoDoc == [Doc(NoUser, NoUser, "pending", 0, 0) EXCEPT !.exists = FALSE]

\* the paths of a document that save() sends with $set when modified
Paths == {"courier", "status", "pickup", "delivery", "customerRating",
          "customerFeedback", "courierRating", "courierFeedback"}

\* orderSchema.methods.addTrackingUpdate, on a loaded document d whose
\* pushed elements are p
addTrackingUpdate(d, p, s, loc, notes, now) ==
  [doc |-> [d EXCEPT !.status = s],
   pushed |-> Append(p, Event(s, now, loc, notes))]

\* what order.save() sends for a document loaded as snap and now a.doc with
\* a.pushed pushed: the modified paths, the pushed events, the pushed images
Delta(snap, a) ==
  [set |-> [f \in {g \in Paths : a.doc[g] # snap[g]} |-> a.doc[f]],
   push |-> a.pushed,
   images |-> a.doc.images - snap.images]

NoDelta == [set |-> <<>>, push |-> <<>>, images |-> 0]

\* save() that writes the whole pricing object again, from an update that
\* does not carry it
ApplyDeltaNoPricing(stored, d) ==
  [f \in DOMAIN stored |->
     IF f = "tracking" THEN stored.tracking \o d.push
     ELSE IF f = "images" THEN stored.images + d.images
     ELSE IF f = "pricing"
       THEN [baseFare |-> 0, distanceFare |-> 0, priorityFare |-> 0,
             totalAmount |-> 0]
     ELSE IF f \in DOMAIN d.set THEN d.set[f]
     ELSE stored[f]]

\* save() that $sets the tracking array to the pushed elements
ApplyDeltaSetArray(stored, d) ==
  [f \in DOMAIN stored |->
     IF f = "tracking" THEN d.push
     ELSE IF f = "images" THEN stored.images + d.images
     ELSE IF f \in DOMAIN d.set THEN d.set[f]
     ELSE stored[f]]

\* the update applied to the stored document: $set of the modified paths,
\* $push onto the stored arrays; no version is compared
ApplyDelta(stored, d) ==
  [f \in DOMAIN stored |->
     IF f = "tracking" THEN stored.tracking \o d.push
     ELSE IF f = "images" THEN stored.images + d.images
     ELSE IF f \in DOMAIN d.set THEN d.set[f]
     ELSE stored[f]]

\* ------------------------------------------------------------ the requests
NoRating == [average |-> 0, count |-> 0]

NoSeen == [u \in Couriers |-> 0]

Idle == [pc |-> "idle", op |-> "none", actor |-> NoUser,
         seen |-> NoSeen, snap |-> NoDoc, delta |-> NoDelta,
         loc |-> 0, score |-> 0, target |-> NoUser,
         found |-> NoRating, rating |-> NoRating, at |-> 0, room |-> 0]

\* the tracking sequence may still grow
Room == Len(order.tracking) - base < MaxAppend

NoOut == [op |-> "none", code |-> "none"]

Out(op, code) == [op |-> op, code |-> code]

\* res.status(...).json(...): the request is over
Respond(r, op, code) ==
  /\ reqs' = [reqs EXCEPT ![r] = Idle]
  /\ out' = Out(op, code)
  /\ UNCHANGED clock

\* the stored order without its tracking sequence: what a handler works on
Loaded == [f \in (DOMAIN order) \ {"tracking"} |-> order[f]]

\* the handler changed the loaded document to a.doc and pushed a.pushed at
\* time now; await order.save() is next
ToSave(r, op, a, now) ==
  /\ Room
  /\ reqs' = [reqs EXCEPT ![r] =
                [Idle EXCEPT !.pc = "saving", !.op = op,
                             !.delta = Delta(reqs[r].snap, a)]]
  /\ out' = NoOut
  /\ clock' = now

\* ---------------------------------------------------------------- initial
NewUser(u) ==
  [isAvailable |-> (role[u] = "courier"), isActive |-> TRUE,
   vehicle |-> IF role[u] = "courier" THEN "bike" ELSE "none",
   currentLocation |-> 0, lastUpdated |-> 0, rating |-> NoRating]

\* the stored form of a loaded document and its tracking sequence
Stored(d, p) ==
  [f \in DOMAIN d \cup {"tracking"} |-> IF f = "tracking" THEN p ELSE d[f]]

\* The order after the first n steps of a delivery handled request by request
\* within one clock tick: created by "cust", assigned to "c1", picked up,
\* in transit, delivered.  Lifecycle(0) is the empty collection.
RECURSIVE Lifecycle(_)
Lifecycle(n) ==
  IF n = 0 THEN [doc |-> NoDoc, pushed |-> <<>>]
  ELSE IF n = 1
    THEN addTrackingUpdate(Doc("cust", NoUser, "pending", 0, 0), <<>>,
                           "pending", 0, "created", 1)
  ELSE LET a == Lifecycle(n - 1) IN
    CASE n = 2 -> addTrackingUpdate(
                    [a.doc EXCEPT !.courier = "c1", !.status = "assigned"],
                    a.pushed, "assigned", 0, AssignedTo["c1"], 1)
      [] n = 3 -> addTrackingUpdate([a.doc EXCEPT !.pickup = 1], a.pushed,
                                    "picked_up", 0, "", 1)
      [] n = 4 -> addTrackingUpdate(a.doc, a.pushed, "in_transit", 0, "", 1)
      [] OTHER -> addTrackingUpdate([a.doc EXCEPT !.delivery = 1], a.pushed,
                                    "delivered", 0, "", 1)

\* the stages a run starts from; the stage after creation is reached by
\* Create from the empty collection
Stages == {0, 2, 3, 4, 5}

\* the users before the run: couriers are available by default, and "c2" may
\* have switched that off (it matters only while the order can be claimed)
InitUsers(n) ==
  {[u \in Users |->
      IF u = "c2" THEN [NewUser(u) EXCEPT !.isAvailable = a] ELSE NewUser(u)] :
   a \in IF n = 0 THEN BOOLEAN ELSE {TRUE}}

InitFrom(S) ==
  /\ \E n \in S :
       /\ order = Stored(Lifecycle(n).doc, Lifecycle(n).pushed)
       /\ base = n
       /\ users \in InitUsers(n)
  /\ reqs = [r \in Slots |-> Idle]
  /\ clock = 1
  /\ session = NoSession
  /\ out = NoOut

Init == InitFrom(Stages)

\* POST /orders by customer "cust"; the body may carry any schema path
\* (orderData = {customer: req.user._id, ...req.body})
Body(no, co, st, cr, tr, di, pr) ==
  [orderNumber |-> no, courier |-> co, status |-> st, customerRating |-> cr,
   tracking |-> tr, distance |-> di, priority |-> pr]

\* a body with the validated fields only, and bodies that also carry an
\* order number, with and without a courier
CreateBodies ==
  {Body(0, NoUser, "pending", 0, <<>>, DefaultDistance, "standard")} \cup
  {Body(FreeNumber, co, "pending", 0, <<>>, DefaultDistance, "standard") :
     co \in {NoUser, "c1"}}

\* the required validator of orderNumber, run by save() before the
\* pre('save') hooks of the schema
validateBeforeSave(d) == d.orderNumber # 0

\* orderSchema.pre('save'): an order without a number gets the generated g
preSave(d, g) ==
  IF d.orderNumber = 0 THEN [d EXCEPT !.orderNumber = g] ELSE d

\* the unique index of orderNumber admits the insert
uniqueNumber(d) == d.orderNumber \notin StoredNumbers

\* the catch block: 500 'Server error creating order', nothing stored
CreateFails ==
  /\ out' = Out("create", "ServerError")
  /\ UNCHANGED <<order, base, clock, session>>

\* new Order(orderData), order.pricing = pricing, the first tracking update
\* and save(); b.distance is calculateDistance() of the body's coordinates
Create(b, now) ==
  /\ ~order.exists
  /\ LET d == [Doc("cust", b.courier, b.status, 0, 0) EXCEPT
                 !.orderNumber = b.orderNumber,
                 !.customerRating = b.customerRating,
                 !.pricing = calculatePricing(b.distance, b.priority)]
         a == addTrackingUpdate(d, b.tracking, "pending", 0, "created", now)
     IN IF ~validateBeforeSave(a.doc) THEN CreateFails
        ELSE \E g \in Numbers :
               LET n == preSave(a.doc, g) IN
               IF ~uniqueNumber(n) THEN CreateFails
               ELSE /\ order' = Stored(n, a.pushed)
                    /\ base' = Len(a.pushed)
                    /\ out' = Out("create", "ok")
                    /\ clock' = now
  /\ UNCHANGED <<users, reqs, session>>

\* a request arrives: authenticateToken loads req.user and the handler's
\* first await reads the order (slot r2 serves a request only while r1 is
\* busy: which of two idle slots takes a request makes no difference)
Receive(r) ==
  /\ reqs[r].pc = "idle"
  /\ (r = "r2" => reqs["r1"].pc # "idle")
  /\ reqs' = [reqs EXCEPT ![r] =
        [Idle EXCEPT !.pc = "loaded",
                     !.seen = [u \in Couriers |-> users[u].currentLocation],
                     !.snap = Loaded]]
  /\ out' = NoOut
  /\ UNCHANGED <<order, users, clock, base, session>>

\* the handlers that call io.to(`order-${order._id}`).emit(...) between
\* await order.save() and res.json(...): location-updated, tracking-updated
\* and proof-uploaded; the handlers of the order routes emit nothing
emits(op) == op \in {"location", "update", "proof"}

\* await order.save(), then res.json(...)
OrderSave(r) ==
  /\ reqs[r].pc = "saving"
  /\ order' = ApplyDelta(order, reqs[r].delta)
  /\ Respond(r, reqs[r].op, "ok")
  /\ UNCHANGED <<users, base, session>>

\* an assign handler without the test of order.courier
courierSetIgnored(o) == FALSE

\* if (order.courier) of PATCH /:id/assign
courierSet(o) == o.courier # NoUser

\* PATCH /orders/:id/assign by u, after findById
Assign(r, u) ==
  LET q == reqs[r] IN
  /\ q.pc = "loaded"
  /\ IF ~requireCourier(u) THEN Respond(r, "assign", "Forbidden")
     ELSE IF ~q.snap.exists THEN Respond(r, "assign", "NotFound")
     ELSE IF q.snap.status # "pending"
       THEN Respond(r, "assign", "AlreadyAssigned")
     ELSE IF courierSet(q.snap)
       THEN Respond(r, "assign", "AlreadyAssigned")
     ELSE IF ~users[u].isAvailable
       THEN Respond(r, "assign", "NotAvailable")
     ELSE \E now \in Now :
            ToSave(r, "assign",
              addTrackingUpdate(
                [q.snap EXCEPT !.courier = u, !.status = "assigned"],
                <<>>, "assigned", q.seen[u], AssignedTo[u], now),
              now)
  /\ UNCHANGED <<order, users, base, session>>

\* isAuthorized that lets the customer drive any status
isAuthorizedAnyStatus(u, o, t) ==
  \/ role[u] = "admin"
  \/ (o.courier # NoUser /\ o.courier = u)
  \/ o.customer = u

\* const isAuthorized = ... of PATCH /:id/status
isAuthorized(u, o, t) ==
  \/ role[u] = "admin"
  \/ (o.courier # NoUser /\ o.courier = u)
  \/ (t = "cancelled" /\ o.customer = u)

\* PATCH /orders/:id/status by u with body {status: t, location: l}
Status(r, u, t, l) ==
  LET q == reqs[r] IN
  /\ q.pc = "loaded"
  /\ IF t \notin StatusBody THEN Respond(r, "status", "ValidationError")
     ELSE IF ~q.snap.exists THEN Respond(r, "status", "NotFound")
     ELSE IF ~isAuthorized(u, q.snap, t)
       THEN Respond(r, "status", "Unauthorized")
     ELSE IF transitionRejected(q.snap.status, t)
       THEN Respond(r, "status", "InvalidTransition")
     ELSE \E now \in Now :
            LET d == IF t = "picked_up" THEN [q.snap EXCEPT !.pickup = now]
                     ELSE IF t = "delivered"
                       THEN [q.snap EXCEPT !.delivery = now]
                     ELSE q.snap
            IN ToSave(r, "status", addTrackingUpdate(d, <<>>, t, l, "", now),
                      now)
  /\ UNCHANGED <<order, users, base, session>>

\* const isAuthorized = ... of PATCH /:id/cancel
cancelAuthorized(u, o) ==
  \/ role[u] = "admin"
  \/ o.customer = u
  \/ (o.courier # NoUser /\ o.courier = u)

\* a cancel handler that writes the status before it tests the stage
CancelWritesFirst(r, u) ==
  LET q == reqs[r] IN
  /\ q.pc = "loaded"
  /\ IF ~q.snap.exists
       THEN Respond(r, "cancel", "NotFound") /\ UNCHANGED order
     ELSE IF ~cancelAuthorized(u, q.snap)
       THEN Respond(r, "cancel", "Unauthorized") /\ UNCHANGED order
     ELSE /\ order' = [order EXCEPT !.status = "cancelled"]
          /\ Respond(r, "cancel", "NotCancellable")
  /\ UNCHANGED <<users, base, session>>

\* PATCH /orders/:id/cancel by u
Cancel(r, u) ==
  LET q == reqs[r] IN
  /\ q.pc = "loaded"
  /\ IF ~q.snap.exists THEN Respond(r, "cancel", "NotFound")
     ELSE IF ~cancelAuthorized(u, q.snap)
       THEN Respond(r, "cancel", "Unauthorized")
     ELSE IF q.snap.status \notin {"pending", "assigned"}
       THEN Respond(r, "cancel", "NotCancellable")
     ELSE \E now \in Now :
            ToSave(r, "cancel",
                   addTrackingUpdate(q.snap, <<>>, "cancelled", 0,
                                     "cancelled", now),
                   now)
  /\ UNCHANGED <<order, users, base, session>>

\* the rating is on the loaded document d; await User.findById(target) is next
ToUserFind(r, d, score, target) ==
  /\ reqs' = [reqs EXCEPT ![r] =
                [Idle EXCEPT !.pc = "userfind", !.op = "rate",
                             !.delta = Delta(reqs[r].snap,
                                             [doc |-> d, pushed |-> <<>>]),
                             !.score = score, !.target = target]]
  /\ out' = NoOut
  /\ UNCHANGED clock

\* a rating check that also lets an order in transit be rated
rateableInTransit(o) == o.status \in {"in_transit", "delivered"}

\* the test order.status !== 'delivered' of PATCH /:id/rate, negated
rateable(o) == o.status = "delivered"

\* PATCH /orders/:id/rate by u with body b
Rate(r, u, b) ==
  LET q == reqs[r] IN
  /\ q.pc = "loaded"
  /\ IF ~q.snap.exists THEN Respond(r, "rate", "NotFound")
     ELSE IF ~rateable(q.snap) THEN Respond(r, "rate", "NotDelivered")
     ELSE IF q.snap.customer = u
       THEN IF q.snap.customerRating # 0
              THEN Respond(r, "rate", "AlreadyRated")
            ELSE LET d == [q.snap EXCEPT !.customerRating = b.rating,
                                         !.customerFeedback = b.feedback]
                 IN IF q.snap.courier # NoUser
                      THEN ToUserFind(r, d, b.rating, q.snap.courier)
                    ELSE /\ reqs' = [reqs EXCEPT ![r] =
                               [Idle EXCEPT !.pc = "saving", !.op = "rate",
                                  !.delta = Delta(q.snap, [doc |-> d,
                                                           pushed |-> <<>>])]]
                         /\ out' = NoOut
                         /\ UNCHANGED clock
     ELSE IF q.snap.courier # NoUser /\ q.snap.courier = u
       THEN IF q.snap.courierRating # 0
              THEN Respond(r, "rate", "AlreadyRated")
            ELSE ToUserFind(r,
                            [q.snap EXCEPT !.courierRating = b.rating,
                                           !.courierFeedback = b.feedback],
                            b.rating, q.snap.customer)
     ELSE Respond(r, "rate", "Unauthorized")
  /\ UNCHANGED <<order, users, base, session>>

\* the rolling average with one more rating; averages are in hundredths
newRating(old, score) ==
  [average |-> toFixed2(old.average * old.count + 100 * score,
                        100 * (old.count + 1)),
   count |-> old.count + 1]

\* const courier = await User.findById(...); the new average and count
RateUserFind(r) ==
  LET q == reqs[r] IN
  /\ q.pc = "userfind"
  /\ reqs' = [reqs EXCEPT ![r] =
                [q EXCEPT !.pc = "usersave", !.score = 0,
                          !.found = users[q.target].rating,
                          !.rating = newRating(users[q.target].rating, q.score)]]
  /\ out' = NoOut
  /\ UNCHANGED <<order, users, clock, base, session>>

\* await courier.save() / await customer.save(): the modified paths are $set
RateUserSave(r) ==
  LET q == reqs[r] IN
  /\ q.pc = "usersave" /\ q.op = "rate"
  /\ users' = [users EXCEPT ![q.target].rating =
                 [average |-> IF q.rating.average # q.found.average
                                THEN q.rating.average ELSE @.average,
                  count |-> q.rating.count]]
  /\ reqs' = [reqs EXCEPT ![r] =
                [Idle EXCEPT !.pc = "saving", !.op = "rate",
                             !.delta = q.delta]]
  /\ out' = NoOut
  /\ UNCHANGED <<order, clock, base, session>>

\* a location handler that takes every courier for the assigned one
isAssignedCourierAny(o, u) == TRUE

\* order.courier && order.courier.toString() === req.user._id.toString()
isAssignedCourier(o, u) == o.courier # NoUser /\ o.courier = u

\* io.to(`order-${order._id}`).emit('location-updated', ...) is the work of
\* the step of request r that follows order.save() of a location report
emitsLocationUpdated(r) == reqs[r].pc = "saving" /\ reqs[r].op = "location"

\* PATCH /tracking/:orderNumber/location by u with body {lat, lng} = l
Location(r, u, l) ==
  LET q == reqs[r] IN
  /\ q.pc = "loaded"
  /\ IF ~requireCourier(u) THEN Respond(r, "location", "Forbidden")
     ELSE IF ~q.snap.exists THEN Respond(r, "location", "NotFound")
     ELSE IF ~isAssignedCourier(q.snap, u)
       THEN Respond(r, "location", "Unauthorized")
     ELSE /\ Room
          /\ reqs' = [reqs EXCEPT ![r] =
                        [Idle EXCEPT !.pc = "usersave", !.op = "location",
                                     !.actor = u, !.loc = l, !.snap = q.snap]]
          /\ out' = NoOut
          /\ UNCHANGED clock
  /\ UNCHANGED <<order, users, base, session>>

\* await req.user.save(), then order.tracking.push(locationUpdate)
LocationUserSave(r) ==
  LET q == reqs[r] IN
  /\ q.pc = "usersave" /\ q.op = "location"
  /\ \E now \in Now :
       /\ users' = [users EXCEPT ![q.actor].currentLocation = q.loc,
                                 ![q.actor].lastUpdated = now]
       /\ reqs' = [reqs EXCEPT ![r] =
                [Idle EXCEPT !.pc = "saving", !.op = "location",
                   !.delta = Delta(q.snap,
                      [doc |-> q.snap,
                       pushed |-> <<Event(q.snap.status, now, q.loc,
                                         "Location updated")>>])]]
       /\ clock' = now
  /\ out' = NoOut
  /\ UNCHANGED <<order, base, session>>

\* POST /tracking/:orderNumber/update by u with body {notes, location: l}
Update(r, u, l) ==
  LET q == reqs[r] IN
  /\ q.pc = "loaded"
  /\ IF ~requireCourier(u) THEN Respond(r, "update", "Forbidden")
     ELSE IF ~q.snap.exists THEN Respond(r, "update", "NotFound")
     ELSE IF q.snap.courier = NoUser \/ q.snap.courier # u
       THEN Respond(r, "update", "Unauthorized")
     ELSE \E now \in Now :
            ToSave(r, "update",
              [doc |-> q.snap,
               pushed |-> <<Event(q.snap.status, now,
                                  IF l # 0 THEN l ELSE q.seen[u], "note")>>],
              now)
  /\ UNCHANGED <<order, users, base, session>>

\* POST /tracking/:orderNumber/proof by u
Proof(r, u) ==
  LET q == reqs[r] IN
  /\ q.pc = "loaded"
  /\ IF ~requireCourier(u) THEN Respond(r, "proof", "Forbidden")
     ELSE IF ~q.snap.exists THEN Respond(r, "proof", "NotFound")
     ELSE IF q.snap.courier = NoUser \/ q.snap.courier # u
       THEN Respond(r, "proof", "Unauthorized")
     ELSE \E now \in Now :
            ToSave(r, "proof",
              addTrackingUpdate([q.snap EXCEPT !.images = @ + 1], <<>>,
                                q.snap.status, q.seen[u], "proof", now),
              now)
  /\ UNCHANGED <<order, users, base, session>>

\* the handlers of the order and tracking routes
Next ==
  \/ \E b \in CreateBodies, now \in Now : Create(b, now)
  \/ \E r \in Slots : Receive(r)
  \/ \E r \in Slots, u \in Users : Assign(r, u)
  \/ \E r \in Slots, u \in Users, t \in Statuses, l \in StatusLocations :
       Status(r, u, t, l)
  \/ \E r \in Slots, u \in Users : Cancel(r, u)
  \/ \E r \in Slots, u \in Users, l \in Coords : Location(r, u, l)
  \/ \E r \in Slots : LocationUserSave(r)
  \/ \E r \in Slots, u \in Users, l \in Coords \cup {0} : Update(r, u, l)
  \/ \E r \in Slots, u \in Users : Proof(r, u)
  \/ \E r \in Slots : OrderSave(r)

Spec == Init /\ [][Next]_vars

\* the rating handler, with the status handler beside it
NextRate ==
  \/ \E r \in Slots : Receive(r)
  \/ \E r \in Slots, u \in Users, t \in Statuses, l \in StatusLocations :
       Status(r, u, t, l)
  \/ \E r \in Slots, u \in Users, b \in RateBodies : Rate(r, u, b)
  \/ \E r \in Slots : RateUserFind(r)
  \/ \E r \in Slots : RateUserSave(r)
  \/ \E r \in Slots : OrderSave(r)

\* rating starts from an order in transit or delivered
InitRate == InitFrom({4, 5})

SpecRate == InitRate /\ [][NextRate]_vars


\* an urgent order over 3 km
PricedBodies ==
  {Body(FreeNumber, NoUser, "pending", 0, <<>>, 3 * Unit, "urgent")}

\* every handler that writes an order, one request at a time
NextAll ==
  \/ \E b \in CreateBodies \cup PricedBodies, now \in Now : Create(b, now)
  \/ Receive("r1")
  \/ \E u \in Users : Assign("r1", u)
  \/ \E u \in Users, t \in Statuses, l \in StatusLocations :
       Status("r1", u, t, l)
  \/ \E u \in Users : Cancel("r1", u)
  \/ \E u \in Users, b \in RateBodies : Rate("r1", u, b)
  \/ RateUserFind("r1")
  \/ RateUserSave("r1")
  \/ \E u \in Users, l \in Coords : Location("r1", u, l)
  \/ LocationUserSave("r1")
  \/ \E u \in Users, l \in Coords \cup {0} : Update("r1", u, l)
  \/ \E u \in Users : Proof("r1", u)
  \/ OrderSave("r1")

InitAll == InitFrom(Stages)

SpecAll == InitAll /\ [][NextAll]_vars

\* ------------------------------------------------------ the tracking routes
\* await order.save() in two steps: the update reaches the database, and
\* later the handler resumes with the answer of the driver.  The other
\* specifications take the two as one step, OrderSave.
\* a room that is the same for every order: that of the first stored order
channelShared(o) == CHOOSE n \in StoredNumbers : TRUE

\* `order-${order._id}`: the room of order o.  The model names an order, and
\* so its room, by its number, which is unique as its _id is.
channel(o) == o.orderNumber

\* a socket that joined room k receives what is emitted to room
receives(k, room) == k = room

\* The database applies the update of request r, which is addressed by the
\* _id of the order the handler loaded; r remembers the length of the
\* tracking sequence its events end at, and the room of its order.
OrderWrite(r) ==
  /\ reqs[r].pc = "saving"
  /\ order' = ApplyDelta(order, reqs[r].delta)
  /\ reqs' = [reqs EXCEPT ![r] =
                [Idle EXCEPT !.pc = "saved", !.op = reqs[r].op,
                             !.at = Len(order.tracking)
                                      + Len(reqs[r].delta.push),
                             !.room = channel(order)]]
  /\ out' = NoOut
  /\ UNCHANGED <<users, clock, base, session>>

\* the subscribers of the order's channel at the time of an emit
Subscribers == {"none", "connected", "slow", "disconnected"}

\* an emit that returns only once a connected subscriber has taken the event
emitAwaitsSubscriber(sub) == IF sub = "connected" THEN "sent" ELSE "stalled"

\* io.to(`order-${order._id}`).emit(...): the call hands the event to the
\* server and returns; it is not awaited and takes no acknowledgement
emit(sub) == "sent"

\* the handler resumes behind await order.save(): io.emit(...) if the route
\* emits, then res.json(...)
OrderSaved(r, sub) ==
  /\ reqs[r].pc = "saved"
  /\ IF emits(reqs[r].op) /\ emit(sub) # "sent"
       THEN /\ reqs' = [reqs EXCEPT ![r].pc = "emitting"]
            /\ out' = NoOut
            /\ UNCHANGED clock
     ELSE Respond(r, reqs[r].op, "ok")
  /\ UNCHANGED <<order, users, base, session>>

\* the tracking routes, on an order assigned to "c1"
NextBus ==
  \/ \E r \in Slots : Receive(r)
  \/ \E r \in Slots, u \in Users, l \in Coords : Location(r, u, l)
  \/ \E r \in Slots : LocationUserSave(r)
  \/ \E r \in Slots, u \in Users, l \in Coords \cup {0} : Update(r, u, l)
  \/ \E r \in Slots, u \in Users : Proof(r, u)
  \/ \E r \in Slots : OrderWrite(r)
  \/ \E r \in Slots, sub \in Subscribers : OrderSaved(r, sub)

InitBus == InitFrom({2, 4})

SpecBus == InitBus /\ [][NextBus]_vars

\* ------------------------------------------------------------- creation
\* the distances of the created orders: 40 neighbouring values near
\* 1.0033 km, where distance * 1.5 passes the half cent between 1.50 and 1.51
Distances == {Unit + 8 * k : k \in 90..129}

\* bodies that also carry paths the handler does not validate
AllBodies ==
  {Body(no, co, st, cr, tr, di, pr) :
     no \in Numbers \cup {0}, co \in {NoUser, "c1"}, st \in {"pending", "delivered"}, cr \in {0, 5},
     tr \in {<<>>, <<Event("delivered", 1, 0, "forged")>>},
     di \in Distances, pr \in Priorities}

InitCreate == InitFrom({0})

NextCreate == \E b \in AllBodies, now \in Now : Create(b, now)

SpecCreate == InitCreate /\ [][NextCreate]_vars

\* ---------------------------------------------------- the rolling average
\* the longest rating history a profile starts with
MaxPrior == 2

\* the scores drawn from body('rating').isInt({ min: 1, max: 5 })
Scores == {4, 5}

AvgBodies == {[rating |-> sc, feedback |-> "good"] : sc \in Scores}

\* the aggregates a profile holds after at most n ratings
RECURSIVE PriorRatings(_)
PriorRatings(n) ==
  IF n = 0 THEN {NoRating}
  ELSE LET P == PriorRatings(n - 1)
       IN P \cup {newRating(p, sc) : p \in P, sc \in Scores}

\* a delivered order whose parties already carry ratings of other orders
InitAvg ==
  /\ order = Stored(Lifecycle(5).doc, Lifecycle(5).pushed)
  /\ base = 5
  /\ \E p \in PriorRatings(MaxPrior) :
       users = [u \in Users |->
                 IF u \in {"c1", "cust"} THEN [NewUser(u) EXCEPT !.rating = p]
                 ELSE NewUser(u)]
  /\ reqs = [r \in Slots |-> Idle]
  /\ clock = 1
  /\ session = NoSession
  /\ out = NoOut

NextAvg ==
  \/ \E r \in Slots : Receive(r)
  \/ \E r \in Slots, u \in Users, b \in AvgBodies : Rate(r, u, b)
  \/ \E r \in Slots : RateUserFind(r)
  \/ \E r \in Slots : RateUserSave(r)
  \/ \E r \in Slots : OrderSave(r)

SpecAvg == InitAvg /\ [][NextAvg]_vars

\* --------------------------------------------------------- nearby couriers
\* GET /couriers/nearby.  Positions are metre marks along one meridian (0: no
\* position reported), so that the great-circle distance of two marks is the
\* difference of the marks, in metres.
Marks == {1001, 1004, 1007, 2500}

\* the lat/lng of the query
Points == {1, 500}

\* the radius of the query, in metres
Radii == {1000, 1006}

\* a query parameter that is absent, and one that parseFloat cannot read
NoParam == -1
NotANumber == -2

\* const { lat, lng, radius = 10 } = req.query
DefaultRadius == 10000

Queries == [lat : Points \cup {NoParam},
            radius : Radii \cup {NoParam, NotANumber}]

haversine(a, b) == IF a >= b THEN a - b ELSE b - a

\* the filter of User.find without isAvailable
findFilterAnyAvailability(us, u) ==
  /\ role[u] = "courier"
  /\ us[u].isActive
  /\ us[u].currentLocation # 0

\* the filter of User.find
findFilter(us, u) ==
  /\ role[u] = "courier"
  /\ us[u].isAvailable
  /\ us[u].isActive
  /\ us[u].currentLocation # 0

\* the orders in which the collection may hand out the documents of S
FindOrders(S) ==
  {s \in [1..Cardinality(S) -> S] : \A i, j \in DOMAIN s : s[i] = s[j] => i = j}

\* courier.distance = parseFloat(distance.toFixed(2)), in hundredths of a km
withDistance(us, u, point) ==
  [id |-> u,
   distance |-> toFixed2(haversine(us[u].currentLocation, point), 1000)]

\* return distance <= radiusInKm, on the distance before rounding
withinRadius(us, u, point, radius) ==
  haversine(us[u].currentLocation, point) <= radius

\* x placed behind the elements of the sorted s that are not farther
InsertByDistance(s, x) ==
  LET k == Cardinality({i \in DOMAIN s : s[i].distance <= x.distance})
  IN SubSeq(s, 1, k) \o <<x>> \o SubSeq(s, k + 1, Len(s))

\* nearbyCouriers.sort((a, b) => a.distance - b.distance), a stable sort
RECURSIVE sortByDistance(_)
sortByDistance(s) ==
  IF s = <<>> THEN s
  ELSE InsertByDistance(sortByDistance(SubSeq(s, 1, Len(s) - 1)), s[Len(s)])

NearbyOut(q, list) ==
  [op |-> "nearby", code |-> "ok", query |-> q, couriers |-> list]

\* the handler: found is the order in which User.find returned the couriers
Nearby(q, found) ==
  /\ out' =
       IF q.lat = NoParam \/ q.radius = NotANumber
       THEN Out("nearby", "BadRequest")
       ELSE LET radius == IF q.radius = NoParam THEN DefaultRadius
                          ELSE q.radius
                near == SelectSeq(found,
                          LAMBDA u : withinRadius(users, u, q.lat, radius))
            IN NearbyOut(q, sortByDistance(
                 [i \in DOMAIN near |-> withDistance(users, near[i], q.lat)]))
  /\ UNCHANGED <<order, users, reqs, clock, base, session>>

\* the aggregates of the couriers' profiles
FleetRatings == {NoRating, [average |-> 450, count |-> 2]}

\* the fleet before the query: a courier may have gone off duty, may have been
\* deactivated by an administrator, and may or may not have reported a
\* position, at time 1 or 2
Fleets ==
  {[u \in Users |->
      IF u \in Couriers
      THEN [NewUser(u) EXCEPT !.isAvailable = f[u].isAvailable,
                              !.isActive = f[u].isActive,
                              !.currentLocation = f[u].currentLocation,
                              !.lastUpdated = f[u].lastUpdated,
                              !.rating = f[u].rating]
      ELSE NewUser(u)] :
   f \in {g \in [Couriers -> [isAvailable : BOOLEAN, isActive : BOOLEAN,
                               currentLocation : Marks \cup {0},
                               lastUpdated : 0..2, rating : FleetRatings]] :
            \A u \in Couriers :
              (g[u].currentLocation = 0) <=> (g[u].lastUpdated = 0)}}

InitNearby ==
  /\ order = Stored(Lifecycle(0).doc, Lifecycle(0).pushed)
  /\ base = 0
  /\ users \in Fleets
  /\ reqs = [r \in Slots |-> Idle]
  /\ clock = 1
  /\ session = NoSession
  /\ out = NoOut

NextNearby ==
  \E q \in Queries :
    \E found \in FindOrders({u \in Users : findFilter(users, u)}) :
      Nearby(q, found)

SpecNearby == InitNearby /\ [][NextNearby]_vars

\* ---------------------------------------------------------------- the ETA
\* GET /tracking/:orderNumber/eta.  Positions are marks along one meridian,
\* in ticks of a kilometre (0: no position stored); the delivery address of
\* the order is at the mark Destination.
Destination == Unit

\* the distances of the courier from the destination: 0, 1 km, 7.75 km and
\* quarter kilometres from 60 km on
EtaDistances == {(k * Unit) \div 4 : k \in {0, 4, 31} \cup 240..247}

Vehicles == {"bike", "motorcycle", "car", "van"}

\* const speedMap = {...}, km/h
speedMap == [v \in Vehicles |->
               CASE v = "bike"       -> 15
                 [] v = "motorcycle" -> 25
                 [] v = "car"        -> 30
                 [] v = "van"        -> 25]

\* speedMap[order.courier.vehicle] || 25
estimatedSpeed(v) == IF v \in DOMAIN speedMap THEN speedMap[v] ELSE 25

\* no estimatedMinutes in the response
NoEstimate == -3

\* order.courier.currentLocation of the populated courier c: currentLocation
\* is a nested path of userSchema, and a document answers a nested path with
\* an object whether or not anything is stored under it
currentLocationTruthy(c) == TRUE

\* Math.ceil(distance / estimatedSpeed * 60) for the courier at mark at; the
\* lat and lng of a courier without position are undefined, and arithmetic
\* on undefined gives NaN
estimatedTimeMinutes(at, vehicle) ==
  IF at = 0 THEN NotANumber
  ELSE Ceil(Times60(Over(haversine(Destination, at), estimatedSpeed(vehicle))))

EtaOut(message, minutes) ==
  [op |-> "eta", code |-> "ok", message |-> message,
   estimatedMinutes |-> minutes]

\* the handler; populate('courier') gives null for an order without courier
Eta ==
  /\ out' =
       IF ~order.exists THEN Out("eta", "NotFound")
       ELSE IF order.courier = NoUser \/ ~currentLocationTruthy(order.courier)
         THEN EtaOut("Courier location not available", NoEstimate)
       ELSE EtaOut("", estimatedTimeMinutes(
                         users[order.courier].currentLocation,
                         users[order.courier].vehicle))
  /\ UNCHANGED <<order, users, reqs, clock, base, session>>

\* no order, an order without courier, or an order in transit with courier
\* "c1", whose vehicle and last position vary
InitEta ==
  /\ \E n \in {0, 1, 4} :
       /\ order = Stored(Lifecycle(n).doc, Lifecycle(n).pushed)
       /\ base = n
  /\ \E v \in Vehicles \cup {"none"},
        at \in {0} \cup {Destination + d : d \in EtaDistances} :
       users = [u \in Users |->
                  IF u = "c1" THEN [NewUser(u) EXCEPT !.vehicle = v,
                                                      !.currentLocation = at]
                  ELSE NewUser(u)]
  /\ reqs = [r \in Slots |-> Idle]
  /\ clock = 1
  /\ session = NoSession
  /\ out = NoOut

NextEta == Eta

SpecEta == InitEta /\ [][NextEta]_vars

\* ------------------------------------------------------ the session context
\* AuthProvider of the client and the axios instance its calls go through.
\* session.pc is the position of checkAuth: "mounted" before the effect ran,
\* "verifying" at await authAPI.verifyToken(), "done" after it returned.

\* the calls of the auth API that one page has in flight at a time
MaxCalls == 2

\* how a request of the auth API settles: a 2xx response, a 401 response,
\* or any other failure
Settlements == {"ok", "unauthorized", "error"}

\* GET /auth/verify settles as the others do, and its 2xx response says
\* whether the token is valid
Verdicts == {"valid", "invalid", "unauthorized", "error"}

\* a call whose promise has not settled: the function, the user of the
\* render that made the function (its closure), the argument, and the token
\* the request carries
Request(op, user, arg, token) ==
  [op |-> op, user |-> user, arg |-> arg, token |-> token]

\* the request interceptor: Authorization is set from the 'token' item the
\* moment the request is made
Call(op, user, arg) == Request(op, user, arg, session.token)

\* the server answers 2xx to a request of a protected route only when the
\* request carries a token
answers(c, how) ==
  how = "ok" => c.op \in {"login", "register"} \/ c.token # 0

\* every call the functions of the context can make
Calls ==
  {Request(op, NoProfile, 0, t) :
     op \in {"login", "register", "updateProfile"}, t \in {0, 1}}
  \cup {Request("updateAvailability", u, a, t) :
          u \in Profiles \cup {NoProfile}, a \in {0, 1}, t \in {0, 1}}
  \cup {Request("updateLocation", u, 1, t) :
          u \in Profiles \cup {NoProfile}, t \in {0, 1}}

\* an async function of the context is called from a rendered component:
\* the request leaves and the function waits for it
Place(c) ==
  /\ session.pc # "mounted"
  /\ Cardinality(session.calls) < MaxCalls
  /\ c \notin session.calls
  /\ session' = [session EXCEPT !.calls = @ \cup {c}]
  /\ UNCHANGED server

\* the response interceptor on a 401: both items removed, then
\* window.location.href = '/login'
rejected401(s) ==
  [s EXCEPT !.token = 0, !.savedUser = NoProfile, !.leaving = TRUE]

\* what the interceptors make of a settlement before the caller resumes
intercepted(s, how) == IF how = "unauthorized" THEN rejected401(s) ELSE s

\* checkAuth whose catch block returns before setIsLoading(false)
checkAuthResumedReturnsInCatch(verdict, p) ==
  /\ session.pc = "verifying"
  /\ LET s == intercepted(session, verdict) IN
     session' =
       IF verdict = "valid"
         THEN [s EXCEPT !.user = p, !.savedUser = p, !.isLoading = FALSE,
                        !.pc = "done", !.verdict = verdict]
       ELSE IF verdict = "invalid"
         THEN [s EXCEPT !.token = 0, !.savedUser = NoProfile,
                        !.user = NoProfile, !.isLoading = FALSE,
                        !.pc = "done", !.verdict = verdict]
       ELSE [s EXCEPT !.token = 0, !.savedUser = NoProfile,
                      !.user = NoProfile, !.pc = "done",
                      !.verdict = verdict]
  /\ UNCHANGED server

\* the effect of the provider: checkAuth up to its await, or to its end
\* when an item is missing
checkAuth ==
  /\ session.pc = "mounted"
  /\ session' =
       IF session.token # 0 /\ session.savedUser # NoProfile
         THEN [session EXCEPT !.user = session.savedUser,
                              !.pc = "verifying"]
         ELSE [session EXCEPT !.isLoading = FALSE, !.pc = "done"]
  /\ UNCHANGED server

\* checkAuth after await authAPI.verifyToken(): the response says valid and
\* carries user p, or says invalid, or the call threw
checkAuthResumed(verdict, p) ==
  /\ session.pc = "verifying"
  /\ LET s == intercepted(session, verdict) IN
     session' =
       IF verdict = "valid"
         THEN [s EXCEPT !.user = p, !.savedUser = p, !.isLoading = FALSE,
                        !.pc = "done", !.verdict = verdict]
         ELSE [s EXCEPT !.token = 0, !.savedUser = NoProfile,
                        !.user = NoProfile, !.isLoading = FALSE,
                        !.pc = "done", !.verdict = verdict]
  /\ UNCHANGED server

\* the call c settles as how and its function runs to its end, leaving s
Settle(c, how, s) ==
  /\ c \in session.calls
  /\ answers(c, how)
  /\ session' = [s EXCEPT !.calls = @ \ {c}]
  /\ UNCHANGED server

\* both items set and setUser(userData)
signedIn(s, p) ==
  [s EXCEPT !.token = 1, !.savedUser = p, !.user = p, !.loggedOut = FALSE]

\* login(data) up to await authAPI.login(data)
login ==
  /\ Place(Call("login", NoProfile, 0))
  /\ session'.user = session.user

\* login after the await: the response carries a token and user p
loginResumed(c, how, p) ==
  /\ c.op = "login"
  /\ LET s == intercepted(session, how) IN
     Settle(c, how, IF how = "ok" THEN signedIn(s, p) ELSE s)

\* register(data) up to await authAPI.register(data)
register ==
  /\ Place(Call("register", NoProfile, 0))
  /\ session'.user = session.user

\* register after the await
registerResumed(c, how, p) ==
  /\ c.op = "register"
  /\ LET s == intercepted(session, how) IN
     Settle(c, how, IF how = "ok" THEN signedIn(s, p) ELSE s)

\* logout()
logout ==
  /\ session.pc # "mounted"
  /\ session' = [session EXCEPT !.token = 0, !.savedUser = NoProfile,
                                !.user = NoProfile, !.loggedOut = TRUE]
  /\ UNCHANGED server

\* updateProfile(data) up to await authAPI.updateProfile(data)
updateProfile ==
  /\ Place(Call("updateProfile", NoProfile, 0))
  /\ session'.user = session.user

\* updateProfile after the await: response.user is p
updateProfileResumed(c, how, p) ==
  /\ c.op = "updateProfile"
  /\ LET s == intercepted(session, how) IN
     Settle(c, how, IF how = "ok" THEN [s EXCEPT !.savedUser = p, !.user = p]
               ELSE s)

\* updateAvailability(isAvailable) up to the await; a is 1 for true
updateAvailability(a) ==
  /\ Place(Call("updateAvailability", session.user, a))
  /\ session'.user = session.user

\* updateAvailability after the await: if (user) tests the user of the
\* closure
updateAvailabilityResumed(c, how) ==
  /\ c.op = "updateAvailability"
  /\ LET s == intercepted(session, how)
         updatedUser == [c.user EXCEPT !.isAvailable = (c.arg = 1)]
     IN Settle(c, how, IF how = "ok" /\ c.user # NoProfile
                    THEN [s EXCEPT !.savedUser = updatedUser,
                                   !.user = updatedUser]
                  ELSE s)

\* updateLocation(lat, lng) up to the await; l is the reported mark
updateLocation(l) ==
  /\ Place(Call("updateLocation", session.user, l))
  /\ session'.user = session.user

\* updateLocation after the await
updateLocationResumed(c, how) ==
  /\ c.op = "updateLocation"
  /\ LET s == intercepted(session, how)
         updatedUser == [c.user EXCEPT !.currentLocation = c.arg]
     IN Settle(c, how, IF how = "ok" /\ c.user # NoProfile
                    THEN [s EXCEPT !.savedUser = updatedUser,
                                   !.user = updatedUser]
                  ELSE s)

\* the navigation to /login started by the interceptor: the page is loaded
\* anew, its state and its calls are gone, localStorage stays
navigated ==
  /\ session.leaving
  /\ session' = [NoSession EXCEPT !.token = session.token,
                                  !.savedUser = session.savedUser,
                                  !.loggedOut = session.loggedOut]
  /\ UNCHANGED server

\* the page is opened with an empty localStorage, or with the two items a
\* login left there
InitSession ==
  /\ order = Stored(Lifecycle(0).doc, Lifecycle(0).pushed)
  /\ base = 0
  /\ users = [u \in Users |-> NewUser(u)]
  /\ reqs = [r \in Slots |-> Idle]
  /\ clock = 1
  /\ out = NoOut
  /\ \/ session = NoSession
     \/ \E p \in Profiles :
          session = [NoSession EXCEPT !.token = 1, !.savedUser = p]

NextSession ==
  \/ checkAuth
  \/ \E verdict \in Verdicts, p \in Profiles : checkAuthResumed(verdict, p)
  \/ login
  \/ register
  \/ logout
  \/ updateProfile
  \/ \E a \in {0, 1} : updateAvailability(a)
  \/ \E l \in {1} : updateLocation(l)
  \/ \E c \in Calls, how \in Settlements, p \in Profiles :
       loginResumed(c, how, p)
  \/ \E c \in Calls, how \in Settlements, p \in Profiles :
       registerResumed(c, how, p)
  \/ \E c \in Calls, how \in Settlements, p \in Profiles :
       updateProfileResumed(c, how, p)
  \/ \E c \in Calls, how \in Settlements : updateAvailabilityResumed(c, how)
  \/ \E c \in Calls, how \in Settlements : updateLocationResumed(c, how)
  \/ navigated

SpecSession == InitSession /\ [][NextSession]_vars

\* The effect runs once the provider has rendered, and a request of
\* verifyToken settles, answered or failed: a user whose calls end in a 401
\* and a new page load does not outrun the startup check of every page.
SpecSessionFair ==
  /\ SpecSession
  /\ WF_vars(checkAuth)
  /\ SF_vars(\E verdict \in Verdicts, p \in Profiles :
               checkAuthResumed(verdict, p))

\* ------------------------------------------------------------- properties
\* the transition table of the specification
TransitionTable ==
  {<<"pending", "assigned">>, <<"pending", "cancelled">>,
   <<"assigned", "picked_up">>, <<"assigned", "cancelled">>,
   <<"picked_up", "in_transit">>, <<"picked_up", "cancelled">>,
   <<"in_transit", "delivered">>, <<"in_transit", "failed">>}

Terminal == {"delivered", "cancelled", "failed"}

\* the actors the specification lets drive a transition of order o to t
MayDrive(u, o, t) ==
  \/ role[u] = "admin"
  \/ (o.courier # NoUser /\ u = o.courier)
  \/ (u = o.customer /\ t = "cancelled")

IsPrefix(p, q) == Len(p) <= Len(q) /\ SubSeq(q, 1, Len(p)) = p

\* the tracking events written by successful claims
ClaimEvents ==
  {i \in DOMAIN order.tracking :
     order.tracking[i].notes \in {AssignedTo[u] : u \in Couriers}}

\* the continuation of slot r ran in this step
Continued(r) == reqs[r].pc = "loaded" /\ reqs'[r].pc # "loaded"

\* order.save() of slot r ran in this step
Saved(r) == reqs[r].pc = "saving" /\ reqs'[r].pc = "idle"

\* slot r goes on to save one event labelled t and the status t
Accepted(r, t) ==
  /\ reqs'[r].pc = "saving"
  /\ Len(reqs'[r].delta.push) = 1
  /\ reqs'[r].delta.push[1].status = t
  /\ "status" \in DOMAIN reqs'[r].delta.set
  /\ reqs'[r].delta.set.status = t

\* slot r is refused with the given code and will save nothing
Refused(r, op, codes) ==
  /\ reqs'[r] = Idle
  /\ out'.op = op /\ out'.code \in codes
  /\ order' = order /\ users' = users

\* C1: of the assign requests that race for one pending, unassigned order
\* exactly one succeeds: no order ever records two successful claims.
C1_OneClaimSucceeds == Cardinality(ClaimEvents) <= 1

\* C2: a status request by an authorized actor for a pair (s, t) outside the
\* transition table is refused with HTTP 400 (InvalidTransition, or the
\* validation error of a status the endpoint does not list), also when s is
\* delivered, cancelled or failed.
C2_OffTableRefused ==
  [][\A r \in Slots : (Continued(r) /\ reqs[r].snap.exists) =>
      \A u \in Users, t \in Statuses, l \in StatusLocations :
       (/\ MayDrive(u, reqs[r].snap, t)
        /\ <<reqs[r].snap.status, t>> \notin TransitionTable
        /\ Status(r, u, t, l))
       => Refused(r, "status", {"InvalidTransition", "ValidationError"})]_vars

\* C3: terminal states are absorbing: once the status is delivered, cancelled
\* or failed no step changes it.
C3_TerminalAbsorbing ==
  [][(order.exists /\ order.status \in Terminal)
       => order'.status = order.status]_vars

\* C4: for every pair (s, t) of the transition table a request by an
\* authorized actor on an order read in status s is accepted (the claim of an
\* available courier on an unassigned order for pending -> assigned, the
\* status request for the other pairs), and its save leaves the order in
\* status t and lengthens the tracking by exactly one event labelled t.
C4_TablePairsSucceed ==
  [][/\ \A r \in Slots : (Continued(r) /\ reqs[r].snap.exists) =>
         \A u \in Users, t \in Statuses, l \in StatusLocations :
          (/\ MayDrive(u, reqs[r].snap, t)
           /\ <<reqs[r].snap.status, t>> \in TransitionTable
           /\ t # "assigned"
           /\ Status(r, u, t, l))
          => Accepted(r, t)
     /\ \A r \in Slots : (Continued(r) /\ reqs[r].snap.exists) =>
         \A u \in Couriers :
          (/\ reqs[r].snap.status = "pending"
           /\ reqs[r].snap.courier = NoUser
           /\ users[u].isAvailable
           /\ Assign(r, u))
          => Accepted(r, "assigned")
     /\ \A r \in Slots :
          (/\ Saved(r)
           /\ reqs[r].op \in {"status", "assign"}
           /\ "status" \in DOMAIN reqs[r].delta.set)
          => /\ order'.status = reqs[r].delta.set.status
             /\ Len(order'.tracking) = Len(order.tracking) + 1
             /\ IsPrefix(order.tracking, order'.tracking)
             /\ order'.tracking[Len(order'.tracking)].status = order'.status
             /\ out' = Out(reqs[r].op, "ok")]_vars

\* an order that went through a table pair of the status endpoint and of the
\* assign endpoint after it was created
C4_Witness ==
  /\ base = 1
  /\ order.status = "cancelled"
  /\ out = Out("status", "ok")
  /\ Len(order.tracking) = 3
  /\ order.tracking[2].status = "assigned"
  /\ order.tracking[3].status = "cancelled"

\* C5 as stated: a status request by an actor who may not drive the
\* transition is answered Unauthorized (403) whatever the current and the
\* requested status are, and changes nothing.
C5_UnauthorizedAlways ==
  [][\A r \in Slots : (Continued(r) /\ reqs[r].snap.exists) =>
      \A u \in Users, t \in Statuses, l \in StatusLocations :
       (/\ ~MayDrive(u, reqs[r].snap, t)
        /\ Status(r, u, t, l))
       => Refused(r, "status", {"Unauthorized"})]_vars

\* C5 amended: a status request by an actor who may not drive the transition
\* is answered Unauthorized (403) whenever the requested status is one the
\* endpoint lists (picked_up, in_transit, delivered, cancelled, failed) and
\* with the validation error (400) otherwise; in both cases nothing of the
\* order is changed and nothing is saved.
C5_UnauthorizedRefused ==
  [][\A r \in Slots : (Continued(r) /\ reqs[r].snap.exists) =>
      \A u \in Users, t \in Statuses, l \in StatusLocations :
       (/\ ~MayDrive(u, reqs[r].snap, t)
        /\ Status(r, u, t, l))
       => IF t \in {"picked_up", "in_transit", "delivered", "cancelled", "failed"}
          THEN Refused(r, "status", {"Unauthorized"})
          ELSE Refused(r, "status", {"ValidationError"})]_vars

\* a status request on a stored order was answered Unauthorized
C5_Witness == order.exists /\ out = Out("status", "Unauthorized")

\* C6: in every reachable state a pending order has no courier and an
\* assigned, picked_up, in_transit or delivered order has one.
C6_CourierIffClaimed ==
  order.exists =>
    /\ (order.status = "pending" => order.courier = NoUser)
    /\ (order.status \in {"assigned", "picked_up", "in_transit", "delivered"}
          => order.courier # NoUser)

\* C7: the tracking sequence is append-only: every step leaves the stored
\* sequence a prefix of the new one.
C7_TrackingAppendOnly ==
  [][IsPrefix(order.tracking, order'.tracking)]_vars

\* two requests that overlapped have both saved their event
C7_Witness == Len(order.tracking) >= base + 2

\* C8: in every reachable state the timestamps of the tracking events are
\* non-decreasing in sequence order.
C8_TimestampsMonotone ==
  \A i \in 1..(Len(order.tracking) - 1) :
    order.tracking[i].timestamp <= order.tracking[i + 1].timestamp

\* the order read by the request has the rating of the party u set
RatedBy(u, o) ==
  \/ (u = o.customer /\ o.customerRating # 0)
  \/ (o.courier # NoUser /\ u = o.courier /\ o.courierRating # 0)

\* C9: rating is set once per role: a rate request by the customer (the
\* assigned courier) of an order whose customerRating (courierRating) is
\* already set is answered AlreadyRated and changes neither the order nor any
\* profile.
C9_SecondRateAlreadyRated ==
  [][\A r \in Slots : (Continued(r) /\ reqs[r].snap.exists) =>
      \A u \in Users, b \in RateBodies :
       (RatedBy(u, reqs[r].snap) /\ Rate(r, u, b))
       => Refused(r, "rate", {"AlreadyRated"})]_vars

\* C10: for each order and each role the rating is written at most once and
\* the rated party's rating.count is incremented at most once: the one order
\* raises no profile's count, zero at the start, above one.
C10_CountedOnce == \A u \in Users : users[u].rating.count <= 1

\* the rating paths a request in flight will write
RatingPaths(r) ==
  DOMAIN reqs'[r].delta.set \cap
    {"customerRating", "customerFeedback", "courierRating", "courierFeedback"}

\* C11: a rate request goes on to write only if the order it read is
\* delivered and the caller is its customer (writing customerRating and
\* customerFeedback only) or its courier (writing courierRating and
\* courierFeedback only); every other request, an admin's included, is
\* refused and changes neither the order nor any profile.
C11_RateOnlyDeliveredParties ==
  [][\A r \in Slots : (Continued(r) /\ reqs[r].snap.exists) =>
      \A u \in Users, b \in RateBodies :
        Rate(r, u, b) =>
          LET o == reqs[r].snap IN
          IF o.status = "delivered" /\ u = o.customer
            THEN \/ Refused(r, "rate", {"AlreadyRated"})
                 \/ /\ reqs'[r].pc \in {"userfind", "saving"}
                    /\ RatingPaths(r) = {"customerRating", "customerFeedback"}
                    /\ order' = order /\ users' = users
          ELSE IF o.status = "delivered" /\ o.courier # NoUser /\ u = o.courier
            THEN \/ Refused(r, "rate", {"AlreadyRated"})
                 \/ /\ reqs'[r].pc = "userfind"
                    /\ RatingPaths(r) = {"courierRating", "courierFeedback"}
                    /\ order' = order /\ users' = users
          ELSE Refused(r, "rate", {"NotDelivered", "Unauthorized"})]_vars

\* a rate request on a stored order was refused as unauthorized
C11_Witness == order.status = "delivered" /\ out = Out("rate", "Unauthorized")

\* slot r saved the profile of the rated party in this step
UserSaved(r) ==
  reqs[r].pc = "usersave" /\ reqs[r].op = "rate" /\ reqs'[r].pc = "saving"

\* the score the request of slot r carries
ScoreOf(r) ==
  IF "customerRating" \in DOMAIN reqs[r].delta.set
    THEN reqs[r].delta.set.customerRating
    ELSE reqs[r].delta.set.courierRating

\* n is num / den rounded to the nearest integer, halves upwards
IsRounded(n, num, den) ==
  2 * n * den - den <= 2 * num /\ 2 * num < 2 * n * den + den

C13_TotalIsSumOfRounded ==
  order.exists =>
    order.pricing.totalAmount
      = order.pricing.baseFare + order.pricing.distanceFare
          + order.pricing.priorityFare

\* C14: pricing is immutable after creation: no assign, status update,
\* cancel, rate, location report, courier note or proof upload changes a
\* pricing field of a stored order.
C14_PricingImmutable ==
  [][order.exists => order'.pricing = order.pricing]_vars

\* an urgent order was created and then claimed
C14_Witness ==
  /\ order.pricing.priorityFare = 500
  /\ order.status = "assigned"
  /\ out = Out("assign", "ok")

\* C15: immediately after a successful create, whatever the body carries,
\* the new order is pending, has no courier and no rating, and its tracking
\* is exactly one event labelled pending with no location.
C15_CreatedFresh ==
  [][(~order.exists /\ order'.exists) =>
       /\ order'.status = "pending"
       /\ order'.courier = NoUser
       /\ order'.customerRating = 0 /\ order'.courierRating = 0
       /\ Len(order'.tracking) = 1
       /\ order'.tracking[1].status = "pending"
       /\ order'.tracking[1].location = 0]_vars

\* create requests whose order number is that of a stored order
CollidingBodies ==
  {Body(n, NoUser, "pending", 0, <<>>, CHOOSE di \in Distances : TRUE,
        "standard") : n \in StoredNumbers}

\* C16: a create whose order number equals the number of a stored order
\* does not fail: it ends with the new order stored under a number no other
\* stored order has.
C16_CollisionRetried ==
  [][~order.exists =>
       \A b \in CollidingBodies, now \in Now :
         Create(b, now) =>
           /\ out' = Out("create", "ok")
           /\ order'.exists
           /\ order'.orderNumber \notin StoredNumbers]_vars

\* C17: an assign request of a courier on an order that is not pending or
\* already has a courier is answered AlreadyAssigned (400) and leaves the
\* order's courier, status and tracking as they are.
C17_AssignRefused ==
  [][\A r \in Slots : (Continued(r) /\ reqs[r].snap.exists) =>
      \A u \in Couriers :
        (/\ \/ reqs[r].snap.status # "pending"
            \/ reqs[r].snap.courier # NoUser
         /\ Assign(r, u))
        => Refused(r, "assign", {"AlreadyAssigned"})]_vars

\* a claim on a pending order that already has a courier was refused
C17_Witness ==
  /\ order.status = "pending" /\ order.courier = "c1"
  /\ out = Out("assign", "AlreadyAssigned")

\* ---- C18
NearbyAnswered == out.op = "nearby" /\ out.code = "ok"

Returned == {out.couriers[i].id : i \in DOMAIN out.couriers}

\* the distance in metres of courier u from the point of the answered query
Metres(u) == haversine(users[u].currentLocation, out.query.lat)

AskedRadius ==
  IF out.query.radius = NoParam THEN DefaultRadius ELSE out.query.radius

\* C18 as stated: findNearby returns exactly the couriers that are available,
\* have a known last position and lie within the radius, in ascending order
\* of distance; no unavailable courier and none beyond the radius is returned.
C18_ExactlyAvailableInRadius ==
  NearbyAnswered =>
    /\ Returned = {u \in Couriers : /\ users[u].isAvailable
                                    /\ users[u].currentLocation # 0
                                    /\ Metres(u) <= AskedRadius}
    /\ \A i, j \in DOMAIN out.couriers :
         i < j => Metres(out.couriers[i].id) <= Metres(out.couriers[j].id)

\* C18 amended: findNearby returns, each once, exactly the couriers that are
\* available, active (not deactivated), have a known last position and lie
\* within the radius, in ascending order of the distance rounded to two
\* decimals of a kilometre; no unavailable courier and none beyond the radius
\* is returned.
C18_ActiveAvailableInRadius ==
  NearbyAnswered =>
    /\ Returned = {u \in Couriers : /\ users[u].isAvailable
                                    /\ users[u].isActive
                                    /\ users[u].currentLocation # 0
                                    /\ Metres(u) <= AskedRadius}
    /\ Len(out.couriers) = Cardinality(Returned)
    /\ \A i, j \in DOMAIN out.couriers :
         i < j => (100 * Metres(out.couriers[i].id) + 500) \div 1000
                    <= (100 * Metres(out.couriers[j].id) + 500) \div 1000
    /\ \A u \in Returned : users[u].isAvailable /\ Metres(u) <= AskedRadius

\* a query was answered with two couriers at different rounded distances
C18_Witness ==
  /\ NearbyAnswered
  /\ Len(out.couriers) = 2
  /\ out.couriers[1].distance < out.couriers[2].distance

\* ---- C19
\* C19: a location report for an order by a courier who is not the order's
\* assigned courier is answered 403 and changes nothing: the caller's
\* currentLocation stays, no tracking event is appended (none is left to be
\* saved either), and no location-updated event is published.
C19_ForeignReportRefused ==
  [][\A r \in Slots : (Continued(r) /\ reqs[r].snap.exists) =>
      \A u \in Couriers, l \in Coords :
        (reqs[r].snap.courier # u /\ Location(r, u, l))
        => /\ Refused(r, "location", {"Unauthorized"})
           /\ users'[u].currentLocation = users[u].currentLocation
           /\ order'.tracking = order.tracking
           /\ ~emitsLocationUpdated(r)']_vars

\* courier "c2" reported a position for the order assigned to "c1" and got 403
C19_Witness ==
  /\ order.exists /\ order.courier = "c1"
  /\ out = Out("location", "Unauthorized")
  /\ users["c2"].currentLocation = 0

\* ---- C20
\* the statuses of an active assignment
ActiveAssignment == {"assigned", "picked_up", "in_transit"}

\* C20: a location report appends a tracking event only to an order whose
\* status is assigned, picked_up or in_transit: every "Location updated"
\* event carries one of these statuses (the event records the status the
\* handler read), none the status delivered, cancelled or failed.
C20_ReportsOnlyWhileActive ==
  \A i \in DOMAIN order.tracking :
    order.tracking[i].notes = "Location updated"
      => order.tracking[i].status \in ActiveAssignment

\* ---- C21
\* a step published an event on the order's channel
Published == emits(out'.op) /\ out'.code = "ok"

\* C21: every tracking event appended to the order (by create, claim, status
\* transition, cancellation, location report, courier note or proof upload)
\* is followed by a publication on the order's channel: the step that ends
\* the request which appended to order.tracking publishes an event.
C21_AppendPublished ==
  [][Len(order'.tracking) > Len(order.tracking) => Published]_vars

\* ---- C22
\* request r resumed behind its save and published its event in this step
Publishes(r) ==
  reqs[r].pc = "saved" /\ reqs'[r].pc = "idle" /\ emits(reqs[r].op)

\* C22: events on one order's channel are published in the order in which
\* their tracking events were appended, also when the requests run
\* concurrently: when a request publishes its event, no other request is
\* still to publish an event that was appended earlier.
C22_PublishedInAppendOrder ==
  [][\A r, o \in Slots :
       (Publishes(r) /\ o # r /\ reqs[o].pc = "saved" /\ emits(reqs[o].op))
       => reqs[r].at < reqs[o].at]_vars

\* ---- C23
\* the events request r pushed are in the stored tracking sequence
Persisted(r) ==
  /\ reqs[r].at \in DOMAIN order.tracking
  /\ order.tracking[reqs[r].at].notes \in {"Location updated", "note", "proof"}

\* C23: publishing is fire-and-forget.  When a location report, courier note
\* or proof upload resumes behind its save, its tracking event is already
\* stored, and whatever the state of the subscribers (none, connected, slow,
\* disconnected) the step ends the request with its success response and
\* leaves the order as stored; the write itself takes no subscriber state.
C23_FireAndForget ==
  [][\A r \in Slots :
       (reqs[r].pc = "saved" /\ emits(reqs[r].op)) =>
         \A sub \in Subscribers :
           OrderSaved(r, sub) =>
             /\ Persisted(r)
             /\ reqs'[r] = Idle
             /\ out' = Out(reqs[r].op, "ok")
             /\ order' = order]_vars

\* a location report was answered with success and its event is the last of
\* the stored tracking sequence
C23_Witness ==
  /\ out = Out("location", "ok")
  /\ Len(order.tracking) > base
  /\ order.tracking[Len(order.tracking)].notes = "Location updated"

\* ---- C24
\* C24: an ETA query for an order whose courier is unset or whose courier has
\* no known position answers with the message "Courier location not
\* available" and without a numeric estimatedMinutes, and changes no state.
C24_NoPositionMessage ==
  [][(/\ out'.op = "eta" /\ out'.code = "ok"
      /\ \/ order.courier = NoUser
         \/ users[order.courier].currentLocation = 0)
     => /\ out'.message = "Courier location not available"
        /\ out'.estimatedMinutes < 0
        /\ order' = order /\ users' = users]_vars

\* ---- C25
\* the distance of the order's courier from the destination, in ticks
CourierDistance ==
  haversine(Destination, users[order.courier].currentLocation)

\* the speed table of the claim, km/h
ClaimedSpeed(v) ==
  CASE v = "bike" -> 15 [] v = "motorcycle" -> 25 [] v = "car" -> 30
    [] v = "van" -> 25 [] OTHER -> 25

\* C25: for every distance d >= 0 and vehicle type v the ETA query answers
\* estimatedMinutes = ceil(d / speed(v) * 60), speed as in the table and 25
\* for any other or missing type: the least whole number of minutes m with
\* m * speed(v) >= 60 * d; d = 0 gives 0 minutes for every vehicle type.
C25_ExactCeil ==
  (out.op = "eta" /\ out.code = "ok" /\ out.estimatedMinutes >= 0) =>
    LET num == 60 * CourierDistance
        den == ClaimedSpeed(users[order.courier].vehicle) * Unit
    IN /\ out.estimatedMinutes = (num + den - 1) \div den
       /\ CourierDistance = 0 => out.estimatedMinutes = 0

\* ---- C26
\* the tracking events written by the status handler
StatusEvents == {i \in DOMAIN order.tracking : order.tracking[i].notes = ""}

\* C26: concurrent status requests on one order are serialized, so that the
\* outcome is that of handling them one after another: the order never
\* records both a transition to delivered and one to failed, and never two
\* successive events of the same transition (two identical requests never
\* both succeed).
C26_StatusSerialized ==
  /\ ~ \E i, j \in StatusEvents :
         /\ order.tracking[i].status = "delivered"
         /\ order.tracking[j].status = "failed"
  /\ \A i \in StatusEvents :
       i > 1 => order.tracking[i - 1].status # order.tracking[i].status

\* ---- C27
\* the answers of a rejected request
Rejections == {"NotFound", "Unauthorized", "InvalidTransition",
               "AlreadyAssigned", "AlreadyRated", "NotCancellable"}

\* C27: a request on an order that is rejected (not found, unauthorized,
\* invalid transition, already assigned, already rated, not cancellable) is
\* atomic: the step that answers it leaves the stored order (status, courier,
\* tracking, actual times, ratings, pricing) as it was, and the order is then
\* the one the request read.
C27_RejectedAtomic ==
  [][\A r \in Slots :
       (Continued(r) /\ out'.code \in Rejections) =>
         /\ order' = order
         /\ reqs'[r] = Idle
         /\ reqs[r].snap.exists =>
              /\ order'.tracking = order.tracking
              /\ \A f \in DOMAIN reqs[r].snap : order'[f] = reqs[r].snap[f]]_vars

\* a cancel request for an order in transit was refused and the order is
\* still in transit
C27_Witness ==
  /\ out = Out("cancel", "NotCancellable")
  /\ order.status = "in_transit"
  /\ \A r \in Slots : reqs[r] = Idle

\* ---- C28
\* C28: the cancel endpoint follows the transition table of the status
\* endpoint: a cancel request of an authorized actor is accepted exactly when
\* the table holds (s, cancelled) for the status s of the order it read
\* (pending, assigned, picked_up) and is refused for in_transit, delivered,
\* cancelled and failed.
C28_CancelFollowsTable ==
  [][\A r \in Slots : (Continued(r) /\ reqs[r].snap.exists) =>
      \A u \in Users :
        (MayDrive(u, reqs[r].snap, "cancelled") /\ Cancel(r, u))
        => IF <<reqs[r].snap.status, "cancelled">> \in TransitionTable
             THEN Accepted(r, "cancelled")
             ELSE Refused(r, "cancel", {"NotCancellable"})]_vars

\* ---- C29
\* C29: an assign request is accepted only if, at the moment of the claim,
\* the requesting courier has isAvailable = true and a known last position.
C29_ClaimNeedsPresence ==
  [][\A r \in Slots : (Continued(r) /\ reqs[r].snap.exists) =>
      \A u \in Couriers :
        (Assign(r, u) /\ Accepted(r, "assigned"))
        => /\ users[u].isAvailable
           /\ users[u].currentLocation # 0]_vars

\* ---- C30
\* C30: in the ranking of nearby couriers two candidates at equal distance
\* are ordered by higher rolling rating first and, if the ratings are equal
\* too, by earlier presence-report timestamp first.
C30_TieBreak ==
  NearbyAnswered =>
    \A i, j \in DOMAIN out.couriers :
      LET a == users[out.couriers[i].id]
          b == users[out.couriers[j].id]
      IN (i < j /\ Metres(out.couriers[i].id) = Metres(out.couriers[j].id))
         => \/ a.rating.average > b.rating.average
            \/ /\ a.rating.average = b.rating.average
               /\ a.lastUpdated <= b.lastUpdated

\* ---- C31
\* C31: actualTime.pickup is written by a successful transition into
\* picked_up and actualTime.delivery by one into delivered, and by nothing
\* else; once set, a stamp is never overwritten.
C31_StampsWrittenOnce ==
  [][order.exists =>
       /\ order.pickup # 0 => order'.pickup = order.pickup
       /\ order.delivery # 0 => order'.delivery = order.delivery
       /\ order'.pickup # order.pickup =>
            order.status # "picked_up" /\ order'.status = "picked_up"
       /\ order'.delivery # order.delivery =>
            order.status # "delivered" /\ order'.status = "delivered"]_vars

\* ---- C32
\* the last event of the tracking sequence after the step
LastAppended == order'.tracking[Len(order'.tracking)]

\* C32: a successful location report does all three steps.  When the handler
\* has saved the courier's profile, the courier's currentLocation is the
\* reported coordinate and the request goes on to save one event carrying
\* that coordinate; the request ends only by its save, which appends exactly
\* that one event, labelled with the order's current status, and publishes
\* location-updated on the order's channel.
C32_ReportDoesAllThree ==
  [][\A r \in Slots :
       /\ (/\ reqs[r].pc = "usersave" /\ reqs[r].op = "location"
           /\ reqs'[r] # reqs[r])
          => /\ users'[reqs[r].actor].currentLocation = reqs[r].loc
             /\ reqs'[r].pc = "saving" /\ reqs'[r].op = "location"
             /\ Len(reqs'[r].delta.push) = 1
             /\ reqs'[r].delta.push[1].location = reqs[r].loc
       /\ (/\ reqs[r].pc = "saving" /\ reqs[r].op = "location"
           /\ reqs'[r] # reqs[r])
          => /\ order'.tracking = order.tracking \o reqs[r].delta.push
             /\ LastAppended.status = order'.status
             /\ Published /\ out'.op = "location"]_vars

Framed(o) ==
  <<o.status, o.courier, o.customerRating, o.courierRating, o.pickup,
    o.delivery>>

\* C34: the save of a location report, a courier note or a proof upload
\* appends exactly one tracking event, labelled with the status the order has
\* at that moment, adds one image when it is a proof upload and none
\* otherwise, and leaves status, courier, ratings and actual times unchanged.
C34_ReportsOnlyAppend ==
  [][\A r \in Slots :
       Saved(r) /\ emits(reqs[r].op) =>
         /\ Len(order'.tracking) = Len(order.tracking) + 1
         /\ SubSeq(order'.tracking, 1, Len(order.tracking)) = order.tracking
         /\ LastAppended.status = order.status
         /\ order'.images = order.images
                            + (IF reqs[r].op = "proof" THEN 1 ELSE 0)
         /\ Framed(order') = Framed(order)]_vars

\* ---- C35
\* C35: in every reachable state the status of a stored order is the status
\* label of the last event of its tracking sequence.
C35_StatusIsLastLabel ==
  order.exists /\ Len(order.tracking) > 0 =>
    order.tracking[Len(order.tracking)].status = order.status

\* ---- C36
\* C36: once the courier of an order is set, no step sets it to another
\* courier or back to none.
C36_CourierNeverChanges ==
  [][order.exists /\ order.courier # NoUser =>
       order'.courier = order.courier]_vars

\* ---- C37
\* C37: handled one request at a time, an order that is not pending never
\* becomes pending again, a claim is saved only on a pending order, and the
\* tracking sequence never holds the events of two successful claims.
C37_NeverPendingAgain ==
  [][/\ order.exists /\ order.status # "pending" =>
          order'.exists /\ order'.status # "pending"
     /\ Saved("r1") /\ reqs["r1"].op = "assign" =>
          order.status = "pending" /\ order'.status = "assigned"
     /\ Cardinality(ClaimEvents') <= 1]_vars

\* a delivered order, claimed once, has just refused a second claim
C37_Witness ==
  /\ order.exists /\ order.status = "delivered"
  /\ Cardinality(ClaimEvents) = 1
  /\ out = Out("assign", "AlreadyAssigned")

\* ---- C38
\* C38: once logout has run, and until a login or a register succeeds, the
\* user in memory is null and localStorage holds neither 'token' nor 'user',
\* whatever calls made before the logout settle afterwards.
C38_LoggedOutStays ==
  session.loggedOut =>
    /\ session.user = NoProfile
    /\ session.token = 0
    /\ session.savedUser = NoProfile

\* ---- C39
\* C39: after the provider mounts, isLoading becomes false whichever way the
\* startup check goes, and when the check ends with the token reported
\* invalid or with verifyToken failing, it leaves no stored token, no stored
\* user, a null user and isLoading false.
C39_StartupEnds ==
  /\ (session.pc # "done") ~> (~session.isLoading)
  /\ [][session.pc = "verifying" /\ session'.pc = "done"
        /\ session'.verdict # "valid" =>
          /\ session'.token = 0
          /\ session'.savedUser = NoProfile
          /\ session'.user = NoProfile
          /\ ~session'.isLoading]_vars

\* the startup check ended in its catch block
C39_Witness ==
  /\ session.pc = "done" /\ session.verdict = "error"
  /\ ~session.isLoading
  /\ session.token = 0 /\ session.user = NoProfile

====
